---- MODULE Spec2Model ----
(***************************************************************************)
(* guardian: session authentication, the RBAC check of the HTTP            *)
(* middleware (auth/auth.go) and the custom-migration runner               *)
(* (migration/migration.go), over the relational store and the session     *)
(* cache they read and write.                                              *)
(*                                                                         *)
(* Spec     the HTTP middleware: one request at a time against a store     *)
(*          that the schema operations change between requests.            *)
(* MigSpec  Migration.Run called sequentially with migration functions     *)
(*          that write rows and then succeed, fail or panic.               *)
(***************************************************************************)
EXTENDS Integers, Sequences, FiniteSets, TLC

(* ------------------------------ bounds -------------------------------- *)

\* rows the rule table may hold
MaxRules == 1

\* rows one record of the migration table may be duplicated to
MaxRecords == 2

\* Options.ExpiredInSec: the configured lifetime of a session, in seconds
ExpiredInSeconds == 2

UserIds == {1, 2}
RoleIds == {1, 2}
Tokens == {"t0", "t1"}
Methods == {"GET", "POST"}
Routes == {"/a"}
RuleNames == {"owner"}
MigrationKeys == {"k1", "k2"}
Items == {"row1", "row2"}
Names == {"a", "b"}
Identifiers == Names \cup {"c"}
Passwords == {"p", "q"}

(* ------------------------- program constants -------------------------- *)

RoleRuleType == 13
PermissionRuleType == 9
CookieBasedAuth == 0
TokenBasedAuth == 1
LoginEmail == 0
LoginUsername == 1
LoginEmailUsername == 2
StatusUnauthorized == 401
StatusForbidden == 403

\* a nil *schema.User, a nil *schema.Permission, a nil entry of a
\* []interface{} (bound as SQL NULL) and a response whose status was never
\* written
NoUser == 0
NoPermission == 0
SqlNull == 0
NoStatus == 0

\* a request without the session cookie
NoCookie == "none"

\* two of the nine required indexes, in the order the index script creates them
IndexNames == <<"guard_user_email_idx", "guard_user_username_idx">>
\* the callers of Migration.Run
Callers == {1, 2}

\* error values
Nil == "nil"
ErrMigrationAlreadyExist == "ErrMigrationAlreadyExist"
ErrMigrationHistory == "ErrMigrationHistory"

VARIABLES
    \* relational store
    users,           \* ids of the rows of the user table
    permissions,     \* rows of the permission table
    userRole,        \* rows of user_role: <<role, user>>
    rolePermission,  \* rows of role_permission: <<role, permission>>
    rules,           \* rows of the rule table, a sequence in id order
    migrations,      \* rows of the migration table: key -> number of records
    rows,            \* rows written through a GuardTx and committed
    accounts,        \* user id -> email, username, password, active
    \* session cache
    cache,           \* token -> user id, NoUser when the key is absent
    ttl,             \* token -> seconds the key has left, 0 when it is absent
    \* Auth
    registry,        \* Auth.rules: the executors registered, by name
    loginMethod,     \* Auth.loginMethod
    \* observations
    resp,            \* the HTTP exchange in progress
    mig,             \* the last call of Migration.Run
    applied,         \* keys for which Migration.Run has returned nil
    sessions,        \* token -> the user it was last issued to and the
                     \* seconds since, until it is revoked
    \* schema of the store and Migration.Initialize
    tables,          \* whether the tables of the baseline schema exist
    catalog,         \* names of the indexes in the store's index catalog
    requiredIndexes, \* the package variable: index name -> seen
    ini,             \* the last call of Migration.Initialize or Down
    \* concurrent Migration.Run
    txs              \* caller -> its call of Run and its open transaction

vars == <<users, permissions, userRole, rolePermission, rules, migrations, rows,
          cache, registry, resp, mig, applied, accounts, loginMethod, ttl,
          sessions, tables, catalog, requiredIndexes, ini, txs>>

authVars == <<users, permissions, userRole, rolePermission, rules, cache,
              registry, resp>>
migVars == <<migrations, rows, mig, applied>>
loginVars == <<accounts, loginMethod>>
sessVars == <<ttl, sessions>>
schemaVars == <<tables, catalog, requiredIndexes, ini>>
raceVars == <<txs>>

\* a token that was not issued, or was revoked
NoSession == [user |-> NoUser, age |-> 0]

\* no HTTP exchange in progress
Idle == [kind |-> "idle"]

(* ======================== store: schema package ======================== *)

PermissionIds == {p.id : p \in permissions}

\* The ids of a set of integers in ascending order: the order rows come back in.
RECURSIVE SortedSeq(_)
SortedSeq(S) ==
    IF S = {} THEN <<>>
    ELSE LET m == CHOOSE x \in S : \A y \in S : x <= y
         IN  <<m>> \o SortedSeq(S \ {m})

\* getAccessQuery: user_role JOIN role_permission JOIN permission
AccessExists(userId, method, path) ==
    \E ur \in userRole, rp \in rolePermission, p \in permissions :
        /\ ur[2] = userId
        /\ ur[1] = rp[1]
        /\ rp[2] = p.id
        /\ p.method = method
        /\ p.route = path

\* User.CanAccess
CanAccess(userId, method, path, fault) ==
    IF fault = "CanAccess"
    THEN [allowed |-> FALSE, err |-> "store"]
    ELSE [allowed |-> AccessExists(userId, method, path), err |-> Nil]

\* Role.GetRolesResourceContext: the roles of the user that are linked to the
\* permission of (method, route), as a list of role ids
GetRolesResourceContext(userId, method, route, fault) ==
    IF userId = NoUser \/ userId <= 0
    THEN [roles |-> <<>>, err |-> "ErrInvalidID"]
    ELSE IF fault = "GetRolesResourceContext"
    THEN [roles |-> <<>>, err |-> "store"]
    ELSE [roles |-> SortedSeq({r \in RoleIds :
                        /\ <<r, userId>> \in userRole
                        /\ \E p \in permissions :
                              /\ <<r, p.id>> \in rolePermission
                              /\ p.method = method
                              /\ p.route = route}),
          err |-> Nil]

\* Permission.GetPermissionByResource: the id of the row, NoPermission with a
\* nil error when there is no row
GetPermissionByResource(method, path, fault) ==
    IF fault = "GetPermissionByResource"
    THEN [permission |-> NoPermission, err |-> "store"]
    ELSE LET found == {p \in permissions : p.method = method /\ p.route = path}
         IN  IF found = {}
             THEN [permission |-> NoPermission, err |-> Nil]
             ELSE [permission |-> (CHOOSE p \in found : TRUE).id, err |-> Nil]

\* DBContract.Query on the rule table with a WHERE rule_type = ? AND
\* parent_id IN (?, ...) statement of `placeholders` markers bound to args:
\* database/sql rejects a statement whose markers and arguments differ in
\* number.
QueryRules(placeholders, args, fault) ==
    IF fault
    THEN [rules |-> <<>>, err |-> "store"]
    ELSE IF placeholders # Len(args)
    THEN [rules |-> <<>>, err |-> "sql: wrong number of arguments"]
    ELSE LET parents == {args[i] : i \in 2..Len(args)} \ {SqlNull}
             Keep(r) == r.ruleType = args[1] /\ r.parentId \in parents
         IN  [rules |-> SelectSeq(rules, Keep), err |-> Nil]

\* Rule.GetRolesRule: args is made with len(roles) entries, its first set to
\* the rule type, and the role ids are appended after them; the IN list gets
\* len(args) markers next to the marker of rule_type.
GetRolesRuleArgs(roles) ==
    <<RoleRuleType>> \o [i \in 1..(Len(roles) - 1) |-> SqlNull] \o roles

\* A GetRolesRule that binds the rule type and the role ids only, one marker
\* each.
GetRolesRuleCounted(roles, fault) ==
    IF Len(roles) = 0
    THEN [rules |-> <<>>, err |-> Nil, panic |-> TRUE]
    ELSE LET args == <<RoleRuleType>> \o roles
             q == QueryRules(Len(args), args, fault = "GetRolesRule")
         IN  [rules |-> q.rules, err |-> q.err, panic |-> FALSE]

GetRolesRule(roles, fault) ==
    IF Len(roles) = 0
    THEN \* args[0] of an empty slice
         [rules |-> <<>>, err |-> Nil, panic |-> TRUE]
    ELSE LET args == GetRolesRuleArgs(roles)
             q == QueryRules(1 + Len(args), args, fault = "GetRolesRule")
         IN  [rules |-> q.rules, err |-> q.err, panic |-> FALSE]

\* Rule.GetPermissionRuleContext
GetPermissionRuleContext(permission, fault) ==
    IF permission <= 0
    THEN [rules |-> <<>>, err |-> "ErrInvalidID"]
    ELSE QueryRules(2, <<PermissionRuleType, permission>>,
                    fault = "GetPermissionRuleContext")

\* Role.Assign: INSERT INTO user_role, unique on (role_id, user_id)
Assign(role, user) ==
    /\ resp = Idle
    /\ userRole' = userRole \cup {<<role, user>>}
    /\ UNCHANGED <<users, permissions, rolePermission, rules, cache, registry, resp>>
    /\ UNCHANGED <<migVars, loginVars, sessVars, schemaVars, raceVars>>

\* Role.Revoke
Revoke(role, user) ==
    /\ resp = Idle
    /\ <<role, user>> \in userRole
    /\ userRole' = userRole \ {<<role, user>>}
    /\ UNCHANGED <<users, permissions, rolePermission, rules, cache, registry, resp>>
    /\ UNCHANGED <<migVars, loginVars, sessVars, schemaVars, raceVars>>

\* Role.AddPermission: INSERT INTO role_permission
AddPermission(role, permission) ==
    /\ resp = Idle
    /\ rolePermission' = rolePermission \cup {<<role, permission>>}
    /\ UNCHANGED <<users, permissions, userRole, rules, cache, registry, resp>>
    /\ UNCHANGED <<migVars, loginVars, sessVars, schemaVars, raceVars>>

\* Role.RemovePermission
RemovePermission(role, permission) ==
    /\ resp = Idle
    /\ <<role, permission>> \in rolePermission
    /\ rolePermission' = rolePermission \ {<<role, permission>>}
    /\ UNCHANGED <<users, permissions, userRole, rules, cache, registry, resp>>
    /\ UNCHANGED <<migVars, loginVars, sessVars, schemaVars, raceVars>>

\* Rule.Save: INSERT ... ON DUPLICATE KEY UPDATE, unique on
\* (name, rule_type, parent_id); the new row takes the next id
Save(ruleType, parentId, name) ==
    /\ resp = Idle
    /\ Len(rules) < MaxRules
    /\ ~\E i \in 1..Len(rules) :
          /\ rules[i].ruleType = ruleType
          /\ rules[i].parentId = parentId
          /\ rules[i].name = name
    /\ rules' = Append(rules, [id |-> Len(rules) + 1, ruleType |-> ruleType,
                               parentId |-> parentId, name |-> name])
    /\ UNCHANGED <<users, permissions, userRole, rolePermission, cache, registry, resp>>
    /\ UNCHANGED <<migVars, loginVars, sessVars, schemaVars, raceVars>>

(* =============================== Auth ================================== *)

\* A RuleExecutor: Name() and the users Execute(user) answers true for.
Executors == {[name |-> "owner", allowed |-> {1}],
              [name |-> "owner", allowed |-> {2}]}
NilExecutor == [name |-> "", allowed |-> {}]

Unregistered == [registered |-> FALSE, allowed |-> {}]

\* Auth.RegisterRule
RegisterRule(executor) ==
    /\ resp = Idle
    /\ registry' = IF executor # NilExecutor
                   THEN [registry EXCEPT ![executor.name] =
                            [registered |-> TRUE, allowed |-> executor.allowed]]
                   ELSE registry
    /\ UNCHANGED <<users, permissions, userRole, rolePermission, rules, cache, resp>>
    /\ UNCHANGED <<migVars, loginVars, sessVars, schemaVars, raceVars>>

\* fmt.Sprintf("blocked by rule %s", ruleExecutor.Name())
BlockedBy(name) == <<"blocked by rule", name>>

\* Auth.executeRules: the error, and the names of the rules whose executor ran
RECURSIVE executeRules(_, _)
executeRules(user, rs) ==
    IF rs = <<>> THEN [err |-> Nil, executed |-> <<>>]
    ELSE LET rule == Head(rs)
             ruleExecutor == registry[rule.name]
         IN  IF ruleExecutor.registered
             THEN IF user \in ruleExecutor.allowed
                  THEN LET rest == executeRules(user, Tail(rs))
                       IN  [err |-> rest.err,
                            executed |-> <<rule.name>> \o rest.executed]
                  ELSE [err |-> BlockedBy(rule.name), executed |-> <<rule.name>>]
             ELSE executeRules(user, Tail(rs))

\* The value of a request's context under the key UserPrinciple: absent, or a
\* *schema.User (NoUser for a nil pointer).
Ctxs == {[present |-> FALSE, user |-> NoUser]} \cup
        {[present |-> TRUE, user |-> u] : u \in UserIds \cup {NoUser}}

\* The Authorization header as its space-separated words, <<>> when absent.
Headers == {<<>>, <<"t1">>} \cup {<<"Bearer", t>> : t \in Tokens}

\* strings.Split(rawToken, " ")
Split(header) == IF header = <<>> THEN <<"">> ELSE header

Requests == [header : Headers, cookie : Tokens \cup {NoCookie},
             method : Methods, route : Routes, ctx : Ctxs]

\* GetUserLogin: ctx.Value(UserPrinciple).(*schema.User), a type assertion
\* that panics on a context without the key
GetUserLogin(r) ==
    IF r.ctx.present
    THEN [panic |-> FALSE, user |-> r.ctx.user]
    ELSE [panic |-> TRUE, user |-> NoUser]

\* A token check that takes every token for a live one.
VerifyTokenAcceptsAll(token, fault) ==
    [id |-> IF token \in DOMAIN cache THEN cache[token] ELSE NoUser, err |-> Nil]

\* Auth.VerifyToken: GET token
VerifyToken(token, fault) ==
    IF fault = "cacheGet" \/ token \notin DOMAIN cache
    THEN [id |-> -1, err |-> "cache"]
    ELSE IF cache[token] = NoUser
    THEN [id |-> -1, err |-> "redis: nil"]
    ELSE [id |-> cache[token], err |-> Nil]

\* User.FindUser by id: a nil user with a nil error when there is no row
FindUser(id, fault) ==
    IF fault = "FindUser"
    THEN [user |-> NoUser, err |-> "store"]
    ELSE IF id \in users
    THEN [user |-> id, err |-> Nil]
    ELSE [user |-> NoUser, err |-> Nil]

\* Auth.getUserPrinciple. calls names the cache and store calls made.
getUserPrinciple(r, strategy, fault) ==
    LET headers == Split(r.header)
        noToken == IF strategy = CookieBasedAuth
                   THEN r.cookie = NoCookie
                   ELSE Len(headers) # 2
        token == IF strategy = CookieBasedAuth THEN r.cookie ELSE headers[2]
    IN  IF noToken
        THEN [user |-> NoUser, calls |-> {},
              err |-> IF strategy = CookieBasedAuth
                      THEN "ErrInvalidCookie" ELSE "ErrInvalidAuthorization"]
        ELSE LET v == VerifyToken(token, fault)
                 f == FindUser(v.id, fault)
             IN  IF v.err # Nil
                 THEN [user |-> NoUser, calls |-> {"cacheGet"},
                       err |-> "ErrValidateCookie"]
                 ELSE IF f.err # Nil
                 THEN [user |-> NoUser, calls |-> {"cacheGet", "FindUser"},
                       err |-> "ErrUserNotFound"]
                 ELSE [user |-> f.user, calls |-> {"cacheGet", "FindUser"},
                       err |-> Nil]

\* A ClearSession that returns nil and leaves the key in the cache.
ClearSessionKeepsKey(r, fault) ==
    [cache |-> cache, err |-> IF r.cookie = NoCookie THEN "ErrInvalidCookie" ELSE Nil]

\* Auth.ClearSession: DEL of the cookie value
ClearSession(r, fault) ==
    IF r.cookie = NoCookie THEN [cache |-> cache, err |-> "ErrInvalidCookie"]
    ELSE IF fault = "cacheDel" THEN [cache |-> cache, err |-> "cache"]
    ELSE [cache |-> [cache EXCEPT ![r.cookie] = NoUser], err |-> Nil]

\* An authenticateRoute that rejects without clearing the session.
authenticateRouteKeepsSession(r, strategy, fault) ==
    LET p == getUserPrinciple(r, strategy, fault)
    IN  [err |-> p.err,
         status |-> IF p.err # Nil THEN StatusUnauthorized ELSE NoStatus,
         user |-> p.user, r |-> r, cache |-> cache, calls |-> p.calls]

\* Auth.authenticateRoute: r is the request the caller holds when the call
\* returns. The request that carries the user is bound to the parameter of
\* authenticateRoute only, so the caller's request is the one it passed in.
authenticateRoute(r, strategy, fault) ==
    LET p == getUserPrinciple(r, strategy, fault)
    IN  IF p.err # Nil
        THEN [err |-> p.err, status |-> StatusUnauthorized, user |-> NoUser, r |-> r,
              cache |-> IF strategy = CookieBasedAuth
                        THEN ClearSession(r, fault).cache ELSE cache,
              calls |-> IF strategy = CookieBasedAuth /\ r.cookie # NoCookie
                        THEN p.calls \cup {"cacheDel"} ELSE p.calls]
        ELSE [err |-> Nil, status |-> NoStatus, user |-> p.user, r |-> r,
              cache |-> cache, calls |-> p.calls]

RBACResult(status, err, failed, panic, executed, calls) ==
    [status |-> status, err |-> err, failed |-> failed, panic |-> panic,
     executed |-> executed, calls |-> calls]

\* The store calls of authenticateRBAC, in the order it makes them.
RBACCalls == <<"CanAccess", "GetRolesResourceContext", "GetPermissionByResource",
               "GetRolesRule", "GetPermissionRuleContext">>

CallsUpTo(n) == {RBACCalls[i] : i \in 1..n}

\* Auth.authenticateRBAC. failed names the call that returned an error, calls
\* the store calls made.
authenticateRBAC(r, fault) ==
    LET login == GetUserLogin(r)
        user == login.user
        access == CanAccess(user, r.method, r.route, fault)
        rr == GetRolesResourceContext(user, r.method, r.route, fault)
        pr == GetPermissionByResource(r.method, r.route, fault)
        roleRules == GetRolesRule(rr.roles, fault)
        roleRun == executeRules(user, roleRules.rules)
        permRules == GetPermissionRuleContext(pr.permission, fault)
        permRun == executeRules(user, permRules.rules)
    IN  IF login.panic
        THEN RBACResult(NoStatus, Nil, "none", TRUE, <<>>, {})
        ELSE IF user = NoUser
        THEN RBACResult(StatusUnauthorized, "user not found", "none", FALSE, <<>>, {})
        ELSE IF access.err # Nil \/ ~access.allowed
        THEN RBACResult(StatusForbidden, access.err,
                        IF access.err # Nil THEN "CanAccess" ELSE "none",
                        FALSE, <<>>, CallsUpTo(1))
        ELSE IF rr.err # Nil
        THEN RBACResult(StatusForbidden, rr.err, "GetRolesResourceContext",
                        FALSE, <<>>, CallsUpTo(2))
        ELSE IF pr.err # Nil
        THEN RBACResult(StatusForbidden, pr.err, "GetPermissionByResource",
                        FALSE, <<>>, CallsUpTo(3))
        ELSE IF roleRules.panic
        THEN RBACResult(NoStatus, Nil, "none", TRUE, <<>>, CallsUpTo(3))
        ELSE IF roleRules.err # Nil
        THEN RBACResult(StatusForbidden, roleRules.err, "GetRolesRule",
                        FALSE, <<>>, CallsUpTo(4))
        ELSE IF roleRun.err # Nil
        THEN RBACResult(StatusForbidden, roleRun.err, "none", FALSE,
                        roleRun.executed, CallsUpTo(4))
        ELSE IF pr.permission = NoPermission
        THEN \* *permission of a nil pointer
             RBACResult(NoStatus, Nil, "none", TRUE, roleRun.executed, CallsUpTo(4))
        ELSE \* the error of GetPermissionRuleContext is overwritten by the
             \* result of executeRules on the rules it returned
             RBACResult(IF permRun.err # Nil THEN StatusForbidden ELSE NoStatus,
                        permRun.err,
                        IF permRules.err # Nil THEN "GetPermissionRuleContext" ELSE "none",
                        FALSE, roleRun.executed \o permRun.executed, CallsUpTo(5))

\* f with the value gone for every key that DEL removed from the cache.
Deleted(f, after, gone) ==
    [t \in Tokens |-> IF cache[t] # NoUser /\ after[t] = NoUser THEN gone ELSE f[t]]

\* A handler of the middleware: authenticateRoute, then authenticateRBAC (the
\* RBAC handlers) and the wrapped handler, each reached only when the call
\* before it returned a nil error. The handler hands its own request on.
Serve(r, strategy, rbac, fault) ==
    LET a == authenticateRoute(r, strategy, fault)
        b == authenticateRBAC(a.r, fault)
        base == [kind |-> "served", rbac |-> rbac, strategy |-> strategy, req |-> r,
                 authErr |-> a.err, principal |-> a.user, status |-> a.status,
                 rbacErr |-> Nil, failed |-> "none", panic |-> FALSE,
                 invoked |-> FALSE, handlerReq |-> a.r, executed |-> <<>>]
    IN  /\ resp = Idle
        /\ resp' = IF a.err # Nil THEN base
                   ELSE IF ~rbac THEN [base EXCEPT !.invoked = TRUE]
                   ELSE [base EXCEPT !.status = b.status, !.rbacErr = b.err,
                                     !.failed = b.failed, !.panic = b.panic,
                                     !.executed = b.executed,
                                     !.invoked = (~b.panic /\ b.err = Nil)]
        /\ cache' = a.cache
        /\ ttl' = Deleted(ttl, a.cache, 0)
        /\ sessions' = Deleted(sessions, a.cache, NoSession)
        /\ UNCHANGED <<users, permissions, userRole, rolePermission, rules, registry>>
        /\ UNCHANGED <<migVars, loginVars, schemaVars, raceVars>>

\* The cache and store calls an exchange makes when none of them fails.
Calls(r, strategy, rbac) ==
    LET a == authenticateRoute(r, strategy, "none")
    IN  IF a.err = Nil /\ rbac
        THEN a.calls \cup authenticateRBAC(a.r, "none").calls
        ELSE a.calls

\* The call of the exchange that the cache or the store fails, if any.
Faults(r, strategy, rbac) == {"none"} \cup Calls(r, strategy, rbac)

TokenRequests == {r \in Requests : r.cookie = NoCookie}
CookieRequests == {r \in Requests : r.header = <<>>}

AuthenticateCookieHandler ==
    /\ resp = Idle
    /\ \E r \in CookieRequests : \E fault \in Faults(r, CookieBasedAuth, FALSE) :
          Serve(r, CookieBasedAuth, FALSE, fault)

AuthenticateCookieHandlerFunc ==
    /\ resp = Idle
    /\ \E r \in CookieRequests : \E fault \in Faults(r, CookieBasedAuth, FALSE) :
          Serve(r, CookieBasedAuth, FALSE, fault)

AuthenticateHandler ==
    /\ resp = Idle
    /\ \E r \in TokenRequests : \E fault \in Faults(r, TokenBasedAuth, FALSE) :
          Serve(r, TokenBasedAuth, FALSE, fault)

AuthenticateHandlerFunc ==
    /\ resp = Idle
    /\ \E r \in TokenRequests : \E fault \in Faults(r, TokenBasedAuth, FALSE) :
          Serve(r, TokenBasedAuth, FALSE, fault)

AuthenticateRBACCookieHandler ==
    /\ resp = Idle
    /\ \E r \in CookieRequests : \E fault \in Faults(r, CookieBasedAuth, TRUE) :
          Serve(r, CookieBasedAuth, TRUE, fault)

AuthenticateRBACCookieHandlerFunc ==
    /\ resp = Idle
    /\ \E r \in CookieRequests : \E fault \in Faults(r, CookieBasedAuth, TRUE) :
          Serve(r, CookieBasedAuth, TRUE, fault)

AuthenticateRBACHandler ==
    /\ resp = Idle
    /\ \E r \in TokenRequests : \E fault \in Faults(r, TokenBasedAuth, TRUE) :
          Serve(r, TokenBasedAuth, TRUE, fault)

AuthenticateRBACHandlerFunc ==
    /\ resp = Idle
    /\ \E r \in TokenRequests : \E fault \in Faults(r, TokenBasedAuth, TRUE) :
          Serve(r, TokenBasedAuth, TRUE, fault)

\* The server has written the response: the exchange is over.
Respond ==
    /\ resp # Idle
    /\ resp' = Idle
    /\ UNCHANGED <<users, permissions, userRole, rolePermission, rules, cache, registry>>
    /\ UNCHANGED <<migVars, loginVars, sessVars, schemaVars, raceVars>>

(* ============================== login ================================= *)

\* PasswordGenerator.HashPassword and ValidatePassword (bcrypt)
HashPassword(password) == <<"bcrypt", password>>

ValidatePassword(storedPassword, password) == storedPassword = HashPassword(password)

\* The user tables: rbac_user_email_idx and rbac_user_username_idx are unique.
AccountRows == [email : Names, username : Names,
                password : {HashPassword(p) : p \in Passwords}, active : BOOLEAN]

AccountTables ==
    {f \in [UserIds -> AccountRows] :
        /\ f[1].password = HashPassword("p")
        /\ f[2].password = HashPassword("q")
        /\ \A u, v \in UserIds :
              u # v => f[u].email # f[v].email /\ f[u].username # f[v].username}

DefaultAccounts ==
    [u \in UserIds |->
        [email |-> IF u = 1 THEN "a" ELSE "b",
         username |-> IF u = 1 THEN "a" ELSE "b",
         password |-> HashPassword(IF u = 1 THEN "p" ELSE "q"),
         active |-> TRUE]]

LoginMethods == {LoginEmail, LoginUsername, LoginEmailUsername}

LoginParams == [identifier : Identifiers, password : Passwords]

\* The rows the lookup of Authenticate may return: FindUser by email or by
\* username, FindUserByUsernameOrEmail (email = ? OR username = ? LIMIT 1,
\* any of the matching rows); NoUser when no row matches.
Lookup(method, identifier) ==
    LET match == {u \in users :
                    \/ method \in {LoginEmail, LoginEmailUsername}
                       /\ accounts[u].email = identifier
                    \/ method \in {LoginUsername, LoginEmailUsername}
                       /\ accounts[u].username = identifier}
    IN  IF match = {} THEN {NoUser} ELSE match

\* An Authenticate that does not look at the active flag.
AuthenticateAnyStatus(params, row, fault) ==
    LET loggedUser == IF fault = "FindUser" THEN NoUser ELSE row
    IN  IF loggedUser = NoUser
        THEN [user |-> NoUser, err |-> "ErrInvalidUserLogin"]
        ELSE IF ~ValidatePassword(accounts[loggedUser].password, params.password)
        THEN [user |-> NoUser, err |-> "ErrInvalidPasswordLogin"]
        ELSE [user |-> loggedUser, err |-> Nil]

\* Auth.Authenticate, with the row its lookup returned
Authenticate(params, row, fault) ==
    LET loggedUser == IF fault = "FindUser" THEN NoUser ELSE row
    IN  IF loggedUser = NoUser
        THEN [user |-> NoUser, err |-> "ErrInvalidUserLogin"]
        ELSE IF ~ValidatePassword(accounts[loggedUser].password, params.password)
        THEN [user |-> NoUser, err |-> "ErrInvalidPasswordLogin"]
        ELSE IF ~accounts[loggedUser].active
        THEN [user |-> NoUser, err |-> "ErrUserNotActive"]
        ELSE [user |-> loggedUser, err |-> Nil]

\* A call of the login API as an exchange: what went in and what came back.
\* found is the row the lookup matched, fault the call that failed, generated the token the token
\* strategy produced, token the one returned to the caller and cookie the
\* value of the session cookie set on the response.
LoginResult(kind, params, found, fault, a, generated, token, cookie) ==
    [kind |-> kind, params |-> params, found |-> found, fault |-> fault,
     user |-> a.user, err |-> a.err, generated |-> generated, token |-> token,
     cookie |-> cookie]

\* Auth.Authenticate called by the application
AuthenticateCall(params, row, fault) ==
    /\ resp = Idle
    /\ resp' = LoginResult("Authenticate", params, row, fault,
                           Authenticate(params, row, fault), "", "", NoCookie)
    /\ UNCHANGED <<users, permissions, userRole, rolePermission, rules, cache, registry>>
    /\ UNCHANGED <<migVars, loginVars, sessVars, schemaVars, raceVars>>

\* A SETEX that has written the key when it reports a failure.
SetExFailsAfterWrite(token, id, fault) ==
    [cache |-> [cache EXCEPT ![token] = id],
     ttl |-> [ttl EXCEPT ![token] = ExpiredInSeconds],
     err |-> IF fault = "cacheSet" THEN "cache" ELSE Nil]

\* A SETEX that reports success without writing the key.
SetExWritesNothing(token, id, fault) ==
    [cache |-> cache, ttl |-> ttl, err |-> Nil]

\* SETEX token expiredInSeconds id: expiredInSeconds is written in decimal
\* and read back by the cache as the number of seconds.
SetEx(token, id, fault) ==
    IF fault = "cacheSet"
    THEN [cache |-> cache, ttl |-> ttl, err |-> "cache"]
    ELSE [cache |-> [cache EXCEPT ![token] = id],
          ttl |-> [ttl EXCEPT ![token] = ExpiredInSeconds], err |-> Nil]

\* Auth.SignIn, token being what GenerateToken returns: a fresh random hash
SignIn(params, row, token, fault) ==
    LET a == Authenticate(params, row, fault)
        w == SetEx(token, a.user, fault)
        failed == [user |-> NoUser, err |-> "ErrCreatingToken"]
    IN  /\ resp = Idle
        /\ cache[token] = NoUser
        /\ resp' = IF a.err # Nil
                   THEN LoginResult("SignIn", params, row, fault, a, "", "", NoCookie)
                   ELSE IF w.err # Nil
                   THEN LoginResult("SignIn", params, row, fault, failed, token, "", NoCookie)
                   ELSE LoginResult("SignIn", params, row, fault, a, token, token, NoCookie)
        /\ cache' = IF a.err # Nil THEN cache ELSE w.cache
        /\ ttl' = IF a.err # Nil THEN ttl ELSE w.ttl
        /\ sessions' = IF a.err # Nil \/ w.err # Nil THEN sessions
                       ELSE [sessions EXCEPT ![token] = [user |-> a.user, age |-> 0]]
        /\ UNCHANGED <<users, permissions, userRole, rolePermission, rules, registry>>
        /\ UNCHANGED <<migVars, loginVars, schemaVars, raceVars>>

\* Auth.SignInCookie: the cookie is set on the response before the cache is
\* written
SignInCookie(params, row, hashCookie, fault) ==
    LET a == Authenticate(params, row, fault)
        w == SetEx(hashCookie, a.user, fault)
        failed == [user |-> NoUser, err |-> "ErrCreatingCookie"]
    IN  /\ resp = Idle
        /\ cache[hashCookie] = NoUser
        /\ resp' = IF a.err # Nil
                   THEN LoginResult("SignInCookie", params, row, fault, a, "", "", NoCookie)
                   ELSE IF w.err # Nil
                   THEN LoginResult("SignInCookie", params, row, fault, failed,
                                    hashCookie, "", hashCookie)
                   ELSE LoginResult("SignInCookie", params, row, fault, a,
                                    hashCookie, "", hashCookie)
        /\ cache' = IF a.err # Nil THEN cache ELSE w.cache
        /\ ttl' = IF a.err # Nil THEN ttl ELSE w.ttl
        /\ sessions' = IF a.err # Nil \/ w.err # Nil THEN sessions
                       ELSE [sessions EXCEPT ![hashCookie] = [user |-> a.user, age |-> 0]]
        /\ UNCHANGED <<users, permissions, userRole, rolePermission, rules, registry>>
        /\ UNCHANGED <<migVars, loginVars, schemaVars, raceVars>>

\* Auth.ClearSession called by the application (a sign-out handler). The
\* session of a cookie is revoked when ClearSession returned nil for it.
ClearSessionCall(r, fault) ==
    LET c == ClearSession(r, fault)
    IN  /\ resp = Idle
        /\ resp' = [kind |-> "ClearSession", cookie |-> r.cookie, fault |-> fault,
                    err |-> c.err]
        /\ cache' = c.cache
        /\ ttl' = Deleted(ttl, c.cache, 0)
        /\ sessions' = [t \in Tokens |->
                          IF c.err = Nil /\ r.cookie = t THEN NoSession
                          ELSE sessions[t]]
        /\ UNCHANGED <<users, permissions, userRole, rolePermission, rules, registry>>
        /\ UNCHANGED <<migVars, loginVars, schemaVars, raceVars>>

\* DEL key, the key being a header value given as its words: it names the
\* cache entry of token t only when it is the single word t.
Del(key, fault) ==
    IF fault = "cacheDel" THEN [cache |-> cache, err |-> "cache"]
    ELSE [cache |-> [t \in Tokens |-> IF key = <<t>> THEN NoUser ELSE cache[t]],
          err |-> Nil]

\* Auth.Logout: the key deleted is the Authorization header as received
Logout(request, fault) ==
    LET login == GetUserLogin(request)
        d == Del(request.header, fault)
    IN  IF login.panic THEN [cache |-> cache, err |-> Nil, panic |-> TRUE]
        ELSE IF login.user = NoUser
        THEN [cache |-> cache, err |-> "ErrInvalidUserLogin", panic |-> FALSE]
        ELSE [cache |-> d.cache, err |-> d.err, panic |-> FALSE]

\* Auth.Logout called by the application
LogoutCall(request, fault) ==
    LET l == Logout(request, fault)
    IN  /\ resp = Idle
        /\ resp' = [kind |-> "Logout", req |-> request, fault |-> fault,
                    err |-> l.err, panic |-> l.panic]
        /\ cache' = l.cache
        /\ ttl' = Deleted(ttl, l.cache, 0)
        /\ sessions' = Deleted(sessions, l.cache, NoSession)
        /\ UNCHANGED <<users, permissions, userRole, rolePermission, rules, registry>>
        /\ UNCHANGED <<migVars, loginVars, schemaVars, raceVars>>

\* A second that passes over a cache whose keys never expire.
TickKeepsKeys ==
    /\ resp = Idle
    /\ \E t \in Tokens : sessions[t] # NoSession /\ sessions[t].age < ExpiredInSeconds
    /\ sessions' = [t \in Tokens |->
                      IF sessions[t] # NoSession /\ sessions[t].age < ExpiredInSeconds
                      THEN [sessions[t] EXCEPT !.age = @ + 1]
                      ELSE sessions[t]]
    /\ UNCHANGED <<users, permissions, userRole, rolePermission, rules, registry, resp>>
    /\ UNCHANGED <<cache, ttl, migVars, loginVars, schemaVars, raceVars>>

\* One second passes: every key of the cache loses a second and is gone at 0.
Tick ==
    /\ resp = Idle
    /\ \E t \in Tokens : ttl[t] > 0 \/ (sessions[t] # NoSession
                                        /\ sessions[t].age < ExpiredInSeconds)
    /\ ttl' = [t \in Tokens |-> IF ttl[t] > 0 THEN ttl[t] - 1 ELSE 0]
    /\ cache' = [t \in Tokens |-> IF ttl[t] > 1 THEN cache[t] ELSE NoUser]
    /\ sessions' = [t \in Tokens |->
                      IF sessions[t] # NoSession /\ sessions[t].age < ExpiredInSeconds
                      THEN [sessions[t] EXCEPT !.age = @ + 1]
                      ELSE sessions[t]]
    /\ UNCHANGED <<users, permissions, userRole, rolePermission, rules, registry, resp>>
    /\ UNCHANGED <<migVars, loginVars, schemaVars, raceVars>>

(* ============================ migration ================================ *)

\* A migration function f(gtx): the rows it writes through the GuardTx and
\* how it ends.
Fns == [writes : SUBSET Items, result : {"ok", "err", "panic"}]

RunFaults == {"none", "begin", "check", "write"}

\* An existence check that never finds the record.
CheckFindsNoRecord(table, key, fault) ==
    IF fault = "check"
    THEN [exist |-> FALSE, err |-> "store"]
    ELSE [exist |-> FALSE, err |-> Nil]

\* schema/migration.go: SELECT EXISTS(... WHERE migration_key = ?)
CheckExistingMigration(table, key, fault) ==
    IF fault = "check"
    THEN [exist |-> FALSE, err |-> "store"]
    ELSE [exist |-> table[key] > 0, err |-> Nil]

\* schema/migration.go: INSERT INTO rbac_migration(migration_key)
WriteMigration(table, key, fault) ==
    IF fault = "write"
    THEN [table |-> table, err |-> "store"]
    ELSE [table |-> [table EXCEPT ![key] = @ + 1], err |-> Nil]

\* A deferred function without the recover branch.
FinishCommitsOnPanic(panicking, err) ==
    IF err # Nil /\ ~panicking THEN "rollback" ELSE "commit"

\* The deferred function of Run, given whether a panic is in flight and the
\* value of its parameter err: what it does to the transaction.
FinishTx(panicking, err) ==
    IF panicking THEN "rollback"
    ELSE IF err # Nil THEN "rollback"
    ELSE "commit"

\* The argument of the deferred call is evaluated when the defer statement
\* runs, right after Begin: it is Begin's error, whatever Run assigns to err
\* afterwards.
DeferredErr(beginErr, finalErr) == beginErr

\* The body of Run between the defer statement and its return, on the
\* transaction's view of the store: what Run returns, whether f ran, and the
\* transaction's pending writes.
RunBody(name, f, fault) ==
    LET chk == CheckExistingMigration(migrations, name, fault)
        wr == WriteMigration(migrations, name, fault)
    IN  IF fault = "begin"
        THEN \* tx is nil: the first query on it dereferences nil
             [result |-> "panic", fnInvoked |-> FALSE,
              txRows |-> rows, txMigrations |-> migrations]
        ELSE IF chk.err # Nil
        THEN [result |-> chk.err, fnInvoked |-> FALSE,
              txRows |-> rows, txMigrations |-> migrations]
        ELSE IF chk.exist
        THEN [result |-> ErrMigrationAlreadyExist, fnInvoked |-> FALSE,
              txRows |-> rows, txMigrations |-> migrations]
        ELSE IF f.result = "panic"
        THEN [result |-> "panic", fnInvoked |-> TRUE,
              txRows |-> rows \cup f.writes, txMigrations |-> migrations]
        ELSE IF f.result = "err"
        THEN [result |-> "fnError", fnInvoked |-> TRUE,
              txRows |-> rows \cup f.writes, txMigrations |-> migrations]
        ELSE IF wr.err # Nil
        THEN [result |-> ErrMigrationHistory, fnInvoked |-> TRUE,
              txRows |-> rows \cup f.writes, txMigrations |-> migrations]
        ELSE [result |-> Nil, fnInvoked |-> TRUE,
              txRows |-> rows \cup f.writes, txMigrations |-> wr.table]

\* Migration.Run(name, f)
Run(name, f, fault) ==
    LET body == RunBody(name, f, fault)
        beginErr == IF fault = "begin" THEN "store" ELSE Nil
        finish == FinishTx(body.result = "panic",
                           DeferredErr(beginErr, body.result))
        commit == finish = "commit"
    IN  /\ migrations[name] < MaxRecords
        /\ rows' = IF commit THEN body.txRows ELSE rows
        /\ migrations' = IF commit THEN body.txMigrations ELSE migrations
        /\ mig' = [name |-> name, fn |-> f, fault |-> fault,
                   result |-> body.result, fnInvoked |-> body.fnInvoked,
                   wasApplied |-> name \in applied,
                   rowsBefore |-> rows, migrationsBefore |-> migrations]
        /\ applied' = IF body.result = Nil THEN applied \cup {name} ELSE applied
        /\ UNCHANGED <<authVars, loginVars, sessVars, schemaVars, raceVars>>

NoRun == [name |-> "", fn |-> [writes |-> {}, result |-> "ok"], fault |-> "none",
          result |-> "none", fnInvoked |-> FALSE, wasApplied |-> FALSE,
          rowsBefore |-> {}, migrationsBefore |-> [k \in MigrationKeys |-> 0]]

InitMigration ==
    /\ migrations = [k \in MigrationKeys |-> 0]
    /\ rows = {}
    /\ mig = NoRun
    /\ applied = {}

(* ====================== Migration.Initialize, Down ===================== *)

RequiredNames == {IndexNames[i] : i \in 1..Len(IndexNames)}

InitFaults == {"none", "up", "validate", "indexUp", "down"}

\* migrate(migrationUp): the baseline schema script creates the tables
MigrateUp(fault) ==
    IF fault = "up" THEN [tables |-> tables, err |-> "store"]
    ELSE [tables |-> TRUE, err |-> Nil]

\* The index script run from statement i on a catalog c: each CREATE INDEX
\* fails on a missing table or an index name that exists, and the statements
\* before the failing one have taken effect.
RECURSIVE CreateIndexes(_, _, _)
CreateIndexes(i, hasTables, c) ==
    IF i > Len(IndexNames) THEN [catalog |-> c, err |-> Nil]
    ELSE IF ~hasTables \/ IndexNames[i] \in c
    THEN [catalog |-> c, err |-> "store"]
    ELSE CreateIndexes(i + 1, hasTables, c \cup {IndexNames[i]})

\* migrate(migrationIndexUp)
MigrateIndexUp(hasTables, c, fault) ==
    IF fault = "indexUp" THEN [catalog |-> c, err |-> "store"]
    ELSE CreateIndexes(1, hasTables, c)

\* A tear-down script that drops nothing.
MigrateDownDropsNothing(hasTables, c, fault) ==
    [tables |-> hasTables, catalog |-> c, err |-> Nil]

\* migrate(migrationDown): the tear-down script drops the tables and, with
\* them, their indexes
MigrateDown(hasTables, c, fault) ==
    IF fault = "down" THEN [tables |-> hasTables, catalog |-> c, err |-> "store"]
    ELSE [tables |-> FALSE, catalog |-> {}, err |-> Nil]

\* Migration.validateIndexes on the catalog c: every index name read is marked
\* in requiredIndexes, and a name still unmarked is an error.
validateIndexes(c, fault) ==
    LET marked == [n \in RequiredNames |-> requiredIndexes[n] \/ n \in c]
    IN  IF fault = "validate"
        THEN [requiredIndexes |-> requiredIndexes,
              err |-> "error while checking the tables"]
        ELSE [requiredIndexes |-> marked,
              err |-> IF \E n \in RequiredNames : ~marked[n]
                      THEN "invalid RBAC index Schema" ELSE Nil]

\* Migration.Initialize
Initialize(fault) ==
    LET up == MigrateUp(fault)
        v == validateIndexes(catalog, fault)
        ix == MigrateIndexUp(up.tables, catalog, fault)
        downCalled == up.err # Nil \/ (v.err # Nil /\ ix.err # Nil)
        before == IF up.err # Nil THEN [tables |-> tables, catalog |-> catalog]
                  ELSE IF v.err # Nil
                  THEN [tables |-> up.tables, catalog |-> ix.catalog]
                  ELSE [tables |-> up.tables, catalog |-> catalog]
        down == MigrateDown(before.tables, before.catalog, fault)
        err == IF up.err # Nil THEN up.err
               ELSE IF v.err # Nil THEN ix.err
               ELSE Nil
    IN  /\ tables' = IF downCalled THEN down.tables ELSE before.tables
        /\ catalog' = IF downCalled THEN down.catalog ELSE before.catalog
        /\ requiredIndexes' = IF up.err # Nil THEN requiredIndexes
                              ELSE v.requiredIndexes
        /\ ini' = [op |-> "Initialize", fault |-> fault, err |-> err,
                   upErr |-> up.err,
                   validated |-> up.err = Nil /\ v.err = Nil,
                   indexRun |-> up.err = Nil /\ v.err # Nil,
                   indexErr |-> IF up.err = Nil /\ v.err # Nil THEN ix.err ELSE Nil,
                   downCalled |-> downCalled,
                   read |-> catalog]
        /\ UNCHANGED <<authVars, migVars, loginVars, sessVars, raceVars>>

\* Migration.Down
Down(fault) ==
    LET down == MigrateDown(tables, catalog, fault)
    IN  /\ tables' = down.tables
        /\ catalog' = down.catalog
        /\ ini' = [op |-> "Down", fault |-> fault, err |-> Nil, upErr |-> Nil,
                   validated |-> FALSE, indexRun |-> FALSE, indexErr |-> Nil,
                   downCalled |-> TRUE, read |-> catalog]
        /\ UNCHANGED requiredIndexes
        /\ UNCHANGED <<authVars, migVars, loginVars, sessVars, raceVars>>

\* DROP INDEX by an administrator of the store
DropIndex(n) ==
    /\ n \in catalog
    /\ catalog' = catalog \ {n}
    /\ UNCHANGED <<tables, requiredIndexes, ini>>
    /\ UNCHANGED <<authVars, migVars, loginVars, sessVars, raceVars>>

NoCall == [op |-> "none", fault |-> "none", err |-> Nil, upErr |-> Nil,
           validated |-> FALSE, indexRun |-> FALSE, indexErr |-> Nil,
           downCalled |-> FALSE, read |-> {}]

InitSchema ==
    /\ tables = FALSE
    /\ catalog = {}
    /\ requiredIndexes = [n \in RequiredNames |-> FALSE]
    /\ ini = NoCall

NoTx == [pc |-> "idle", key |-> "", fnResult |-> "ok", deferredErr |-> Nil,
         writes |-> {}, inserted |-> FALSE, result |-> Nil]

InitRace == txs = [c \in Callers |-> NoTx]

NextInit ==
    \/ \E fault \in InitFaults : Initialize(fault)
    \/ \E fault \in {"none", "down"} : Down(fault)
    \/ \E n \in RequiredNames : DropIndex(n)

InitAuth ==
    /\ users = UserIds
    /\ permissions = {[id |-> 1, method |-> "GET", route |-> "/a"]}
    /\ userRole = {}
    /\ rolePermission = {}
    /\ rules = <<>>
    /\ cache = [t \in Tokens |-> IF t = "t1" THEN 1 ELSE NoUser]
    /\ registry = [n \in RuleNames |-> Unregistered]
    /\ resp = Idle

\* The session that Init's cache entry was issued as.
InitSession ==
    /\ ttl = [t \in Tokens |-> IF cache[t] = NoUser THEN 0 ELSE ExpiredInSeconds]
    /\ sessions = [t \in Tokens |->
                      IF cache[t] = NoUser THEN NoSession
                      ELSE [user |-> cache[t], age |-> 0]]

InitLogin ==
    /\ accounts = DefaultAccounts
    /\ loginMethod = LoginEmail

Init == InitAuth /\ InitMigration /\ InitSession /\ InitLogin /\ InitSchema /\ InitRace

Next ==
    \/ \E role \in RoleIds, user \in UserIds : Assign(role, user)
    \/ \E role \in RoleIds, user \in UserIds : Revoke(role, user)
    \/ \E role \in RoleIds, permission \in PermissionIds : AddPermission(role, permission)
    \/ \E role \in RoleIds, permission \in PermissionIds : RemovePermission(role, permission)
    \/ \E role \in RoleIds, name \in RuleNames : Save(RoleRuleType, role, name)
    \/ \E permission \in PermissionIds, name \in RuleNames :
          Save(PermissionRuleType, permission, name)
    \/ \E executor \in Executors \cup {NilExecutor} : RegisterRule(executor)
    \/ AuthenticateCookieHandler
    \/ AuthenticateCookieHandlerFunc
    \/ AuthenticateHandler
    \/ AuthenticateHandlerFunc
    \/ AuthenticateRBACCookieHandler
    \/ AuthenticateRBACCookieHandlerFunc
    \/ AuthenticateRBACHandler
    \/ AuthenticateRBACHandlerFunc
    \/ Respond

Spec == Init /\ [][Next]_vars

NextMig == \E name \in MigrationKeys, f \in Fns, fault \in RunFaults : Run(name, f, fault)

MigSpec == Init /\ [][NextMig]_vars

InitSpec == Init /\ [][NextInit]_vars

(* ==================== concurrent calls of Migration.Run ================ *)

\* The row that the migration function of caller c writes.
WritesOf(c) == IF c = 1 THEN {"row1"} ELSE {"row2"}

\* The unique index on migration_key: an INSERT of a key waits for an open
\* transaction that has inserted the same key ...
InsertWaits(c, key) ==
    \E d \in Callers \ {c} : txs[d].pc # "idle" /\ txs[d].pc # "done"
                             /\ txs[d].key = key /\ txs[d].inserted

\* ... and fails when a committed record has the key.
DuplicateKey(key) == migrations[key] > 0

\* Run up to the defer statement: gSchema.DbConnection.Begin(), and the
\* deferred call with the value err has there
TxBegin(c, key, fnResult) ==
    /\ txs[c].pc = "idle"
    /\ txs' = [txs EXCEPT ![c] = [pc |-> "begun", key |-> key, fnResult |-> fnResult,
                                  deferredErr |-> Nil, writes |-> {},
                                  inserted |-> FALSE, result |-> Nil]]
    /\ UNCHANGED <<authVars, migVars, loginVars, sessVars, schemaVars>>

\* Run: CheckExistingMigration on the caller's transaction
TxCheck(c) ==
    LET chk == CheckExistingMigration(migrations, txs[c].key, "none")
    IN  /\ txs[c].pc = "begun"
        /\ txs' = [txs EXCEPT ![c].pc = IF chk.exist THEN "returning" ELSE "checked",
                              ![c].result = IF chk.exist THEN ErrMigrationAlreadyExist
                                            ELSE Nil]
        /\ UNCHANGED <<authVars, migVars, loginVars, sessVars, schemaVars>>

\* Run: err = f(guardTx), the writes of f staying in the transaction
TxCallFn(c) ==
    /\ txs[c].pc = "checked"
    /\ txs' = [txs EXCEPT ![c].writes = WritesOf(c),
                          ![c].pc = IF txs[c].fnResult = "ok" THEN "ran" ELSE "returning",
                          ![c].result = IF txs[c].fnResult = "ok" THEN Nil ELSE "fnError"]
    /\ UNCHANGED <<authVars, migVars, loginVars, sessVars, schemaVars>>

\* Run: WriteMigration on the caller's transaction
TxWriteMigration(c) ==
    /\ txs[c].pc = "ran"
    /\ ~InsertWaits(c, txs[c].key)
    /\ txs' = [txs EXCEPT ![c].pc = "returning",
                          ![c].inserted = ~DuplicateKey(txs[c].key),
                          ![c].result = IF DuplicateKey(txs[c].key)
                                        THEN ErrMigrationHistory ELSE Nil]
    /\ UNCHANGED <<authVars, migVars, loginVars, sessVars, schemaVars>>

\* Run returns: the deferred function commits or rolls back
TxFinish(c) ==
    LET finish == FinishTx(FALSE, DeferredErr(txs[c].deferredErr, txs[c].result))
        commit == finish = "commit"
        key == txs[c].key
    IN  /\ txs[c].pc = "returning"
        /\ rows' = IF commit THEN rows \cup txs[c].writes ELSE rows
        /\ migrations' = IF commit /\ txs[c].inserted
                         THEN [migrations EXCEPT ![key] = @ + 1] ELSE migrations
        /\ txs' = [txs EXCEPT ![c].pc = "done"]
        /\ UNCHANGED <<mig, applied>>
        /\ UNCHANGED <<authVars, loginVars, sessVars, schemaVars>>

NextRace ==
    \/ \E c \in Callers, key \in MigrationKeys, fnResult \in {"ok", "err"} :
          TxBegin(c, key, fnResult)
    \/ \E c \in Callers : TxCheck(c)
    \/ \E c \in Callers : TxCallFn(c)
    \/ \E c \in Callers : TxWriteMigration(c)
    \/ \E c \in Callers : TxFinish(c)

RaceSpec == Init /\ [][NextRace]_vars

LoginFaults == {"none", "FindUser", "cacheSet"}

(* ===================== user rows changed at run time ================== *)

\* User.Save of a stored user with its Active field set
UserSave(u, active) ==
    /\ resp = Idle
    /\ u \in users
    /\ accounts[u].active # active
    /\ accounts' = [accounts EXCEPT ![u].active = active]
    /\ UNCHANGED <<users, permissions, userRole, rolePermission, rules, cache,
                   registry, resp, loginMethod>>
    /\ UNCHANGED <<migVars, sessVars, schemaVars, raceVars>>

\* User.Delete
UserDelete(u) ==
    /\ resp = Idle
    /\ u \in users
    /\ users' = users \ {u}
    /\ UNCHANGED <<permissions, userRole, rolePermission, rules, cache, registry, resp>>
    /\ UNCHANGED <<migVars, loginVars, sessVars, schemaVars, raceVars>>

NextUser ==
    \/ \E u \in UserIds, active \in BOOLEAN : UserSave(u, active)
    \/ \E u \in UserIds : UserDelete(u)
    \/ /\ resp = Idle
       /\ \E params \in LoginParams : \E row \in Lookup(loginMethod, params.identifier) :
             \E token \in Tokens : SignIn(params, row, token, "none")
    \/ AuthenticateCookieHandler
    \/ AuthenticateHandlerFunc
    \/ Respond

UserSpec == Init /\ [][NextUser]_vars

InitSess ==
    /\ InitAuth
    /\ InitMigration
    /\ InitSession
    /\ accounts \in AccountTables
    /\ loginMethod \in LoginMethods
    /\ InitSchema
    /\ InitRace

NextSess ==
    \/ /\ resp = Idle
       /\ \E params \in LoginParams : \E row \in Lookup(loginMethod, params.identifier) :
             \E fault \in {"none", "FindUser"} : AuthenticateCall(params, row, fault)
    \/ /\ resp = Idle
       /\ \E params \in LoginParams : \E row \in Lookup(loginMethod, params.identifier) :
             \E token \in Tokens, fault \in LoginFaults : SignIn(params, row, token, fault)
    \/ /\ resp = Idle
       /\ \E params \in LoginParams : \E row \in Lookup(loginMethod, params.identifier) :
             \E token \in Tokens, fault \in LoginFaults :
                 SignInCookie(params, row, token, fault)
    \/ /\ resp = Idle
       /\ \E r \in CookieRequests, fault \in {"none", "cacheDel"} :
             ClearSessionCall(r, fault)
    \/ /\ resp = Idle
       /\ \E request \in TokenRequests, fault \in {"none", "cacheDel"} :
             LogoutCall(request, fault)
    \/ AuthenticateHandler
    \/ AuthenticateCookieHandler
    \/ Tick
    \/ Respond

SessSpec == InitSess /\ [][NextSess]_vars

(* ==================== properties of the RBAC handlers ================= *)

\* An exchange of an RBAC handler whose request passed authenticateRoute.
Authenticated ==
    /\ resp.kind = "served"
    /\ resp.rbac
    /\ resp.authErr = Nil
    /\ resp.principal # NoUser

\* The request already carried, under UserPrinciple, the user its token maps to.
CarriesPrincipal ==
    /\ resp.req.ctx.present
    /\ resp.req.ctx.user = resp.principal

\* The user of the token holds a role linked to the permission of the request.
Granted == AccessExists(resp.principal, resp.req.method, resp.req.route)

\* The roles of the user linked to the permission of the request, and the
\* permissions of the request's (method, route).
GrantingRoles ==
    {r \in RoleIds :
        /\ <<r, resp.principal>> \in userRole
        /\ \E p \in permissions :
              /\ <<r, p.id>> \in rolePermission
              /\ p.method = resp.req.method
              /\ p.route = resp.req.route}

MatchingPermissions ==
    {p.id : p \in {q \in permissions :
                      q.method = resp.req.method /\ q.route = resp.req.route}}

Attached(rule) ==
    \/ rule.ruleType = RoleRuleType /\ rule.parentId \in GrantingRoles
    \/ rule.ruleType = PermissionRuleType /\ rule.parentId \in MatchingPermissions

\* C1: when the user of the token holds no role linked to a permission with
\* the request's (method, route), an RBAC handler answers 403 and does not
\* invoke the wrapped handler.
C1_NoGrantIsForbidden ==
    (Authenticated /\ CarriesPrincipal /\ ~Granted) =>
        /\ resp.status = StatusForbidden
        /\ ~resp.invoked

C7_GrantWithoutRulesAllows ==
    (/\ Authenticated
     /\ CarriesPrincipal
     /\ Granted
     /\ resp.rbacErr # "store"
     /\ \A i \in 1..Len(rules) : ~Attached(rules[i])) =>
        /\ resp.invoked
        /\ resp.status \notin {StatusUnauthorized, StatusForbidden}

\* C8: when the grant check passes and a PermissionRule attached to the
\* matching permission has a registered executor, an executor answering false
\* denies (an error naming the rule, 403, handler not invoked) and an executor
\* answering true, with no other rule denying, allows.
C8_PermissionRuleDecides ==
    \A i \in 1..Len(rules) :
        (/\ Authenticated
         /\ CarriesPrincipal
         /\ Granted
         /\ resp.rbacErr # "store"
         /\ rules[i].ruleType = PermissionRuleType
         /\ rules[i].parentId \in MatchingPermissions
         /\ registry[rules[i].name].registered) =>
            IF resp.principal \notin registry[rules[i].name].allowed
            THEN /\ resp.rbacErr = BlockedBy(rules[i].name)
                 /\ resp.status = StatusForbidden
                 /\ ~resp.invoked
            ELSE (\A j \in 1..Len(rules) :
                     (Attached(rules[j]) /\ registry[rules[j].name].registered)
                         => resp.principal \in registry[rules[j].name].allowed)
                 => resp.invoked

\* C9: a store failure during the RBAC check is answered with a status other
\* than the 403 of a Forbidden decision.
C9_StoreErrorIsNotForbidden ==
    (resp.kind = "served" /\ resp.rbac /\ resp.rbacErr = "store") =>
        resp.status # StatusForbidden

\* C10: after authenticateRoute accepts a request, GetUserLogin on the request
\* that the RBAC check and the wrapped handler receive returns the user the
\* session token maps to.
C10_RequestCarriesTokenUser ==
    (resp.kind = "served" /\ resp.authErr = Nil) =>
        GetUserLogin(resp.handlerReq) = [panic |-> FALSE, user |-> resp.principal]

(* ===================== properties of Migration.Run ==================== *)

\* C3: for a key k for which Run has returned nil, a later Run(k, fn2) does
\* not invoke fn2 and leaves the store as it was, with exactly one record for
\* k; it returns ErrMigrationAlreadyExist whenever the store answers the
\* existence query.
C3_AppliedKeyIsNotRunAgain ==
    mig.wasApplied =>
        /\ ~mig.fnInvoked
        /\ migrations[mig.name] = 1
        /\ migrations = mig.migrationsBefore
        /\ rows = mig.rowsBefore
        /\ (mig.fault \notin {"begin", "check"} => mig.result = ErrMigrationAlreadyExist)

\* C3 happens: a second Run of an applied key, with a function that would
\* write rows the store does not hold, has returned ErrMigrationAlreadyExist.
C3_Witness ==
    /\ mig.wasApplied
    /\ mig.result = ErrMigrationAlreadyExist
    /\ mig.fn.result = "ok"
    /\ ~(mig.fn.writes \subseteq mig.rowsBefore)

\* C4: when fn returns an error, the store holds after Run no record for the
\* key and no row that fn wrote.
C4_FailedFnLeavesNothing ==
    mig.result = "fnError" =>
        /\ migrations[mig.name] = 0
        /\ rows = mig.rowsBefore

\* C5: when fn succeeds and WriteMigration fails, Run returns
\* ErrMigrationHistory and the store holds no row that fn wrote.
C5_HistoryFailureRollsBack ==
    (mig.fnInvoked /\ mig.fn.result = "ok" /\ mig.fault = "write") =>
        /\ mig.result = ErrMigrationHistory
        /\ rows = mig.rowsBefore
        /\ migrations = mig.migrationsBefore

\* C6: when fn panics, the store holds after Run no row that fn wrote and no
\* record for the key: the transaction was rolled back.
C6_PanicRollsBack ==
    (mig.fnInvoked /\ mig.result = "panic") =>
        /\ rows = mig.rowsBefore
        /\ migrations = mig.migrationsBefore
        /\ migrations[mig.name] = 0

\* C6 happens: a function that wrote rows the store did not hold has
\* panicked inside Run.
C6_Witness ==
    /\ mig.fnInvoked
    /\ mig.result = "panic"
    /\ mig.fn.result = "panic"
    /\ ~(mig.fn.writes \subseteq mig.rowsBefore)

\* The token a request presents under a strategy, "" when it presents none.
Presented(r, strategy) ==
    IF strategy = CookieBasedAuth
    THEN IF r.cookie = NoCookie THEN "" ELSE r.cookie
    ELSE IF Len(Split(r.header)) = 2 THEN Split(r.header)[2] ELSE ""

\* C11: every protected handler, plain or RBAC, answers 401 and never invokes
\* the wrapped handler when the request carries no credential, when its
\* Authorization header is malformed, when the token it presents has no live
\* entry in the cache, or when reading the cache fails.
C11_NoSessionIs401 ==
    [][(/\ resp = Idle
        /\ resp'.kind = "served"
        /\ LET token == Presented(resp'.req, resp'.strategy)
           IN  \/ token = ""
               \/ cache[token] = NoUser
               \/ resp'.authErr = "ErrValidateCookie")
       => (resp'.status = StatusUnauthorized /\ ~resp'.invoked)]_vars

C11_Witness ==
    /\ resp.kind = "served"
    /\ resp.rbac
    /\ resp.strategy = TokenBasedAuth
    /\ resp.req.header = <<"Bearer", "t0">>
    /\ resp.req.ctx.present
    /\ cache["t0"] = NoUser
    /\ resp.authErr = "ErrValidateCookie"
    /\ resp.status = StatusUnauthorized
    /\ ~resp.invoked

LoginKinds == {"Authenticate", "SignIn", "SignInCookie"}

\* The identifiers of user u in a login mode.
IdentifiersOf(u, method) ==
    (IF method \in {LoginEmail, LoginEmailUsername} THEN {accounts[u].email} ELSE {}) \cup
    (IF method \in {LoginUsername, LoginEmailUsername} THEN {accounts[u].username} ELSE {})

\* C12: Authenticate, and so SignIn and SignInCookie, returns one failure kind
\* for an unknown identifier, a wrong password and an inactive user: when a
\* login has failed for one of these reasons, any other failing call of
\* Authenticate on the same store returns the same error.
C12_FailureKindsAreAlike ==
    (/\ resp.kind \in LoginKinds
     /\ resp.fault = "none"
     /\ resp.err # Nil)
    => \A params \in LoginParams : \A row \in Lookup(loginMethod, params.identifier) :
          LET a == Authenticate(params, row, "none")
          IN  a.err # Nil => a.err = resp.err

\* C13: in every login mode, Authenticate called with an identifier of a
\* stored active user for the mode and that user's password returns that
\* user, whatever other users are stored.
C13_ActiveUserLogsIn ==
    \A u \in users :
        (/\ resp.kind = "Authenticate"
         /\ resp.fault = "none"
         /\ accounts[u].active
         /\ resp.params.identifier \in IdentifiersOf(u, loginMethod)
         /\ ValidatePassword(accounts[u].password, resp.params.password))
        => (resp.err = Nil /\ resp.user = u)

\* C14: a user whose active flag is false never obtains a session: a login
\* whose lookup found an inactive user returns an error whatever the password,
\* returns no token, sets no session cookie and leaves the cache as it was;
\* no login writes a cache entry for an inactive user.
C14_InactiveUserGetsNoSession ==
    [][(resp = Idle /\ resp'.kind \in LoginKinds)
       => /\ (resp'.found # NoUser /\ ~accounts[resp'.found].active)
             => /\ resp'.err # Nil
                /\ resp'.user = NoUser
                /\ resp'.token = ""
                /\ resp'.cookie = NoCookie
                /\ cache' = cache
          /\ resp'.user # NoUser => accounts[resp'.user].active
          /\ \A t \in Tokens :
                (cache'[t] # cache[t] /\ cache'[t] # NoUser) => accounts[cache'[t]].active]_vars

C14_Witness ==
    /\ resp.kind \in {"SignIn", "SignInCookie"}
    /\ resp.fault = "none"
    /\ resp.found # NoUser
    /\ ~accounts[resp.found].active
    /\ ValidatePassword(accounts[resp.found].password, resp.params.password)
    /\ resp.err = "ErrUserNotActive"
    /\ resp.token = ""

\* The session of token t is issued, not revoked, and younger than the
\* configured lifetime.
Live(t) == sessions[t] # NoSession /\ sessions[t].age < ExpiredInSeconds

\* The session of token t was issued, not revoked, and the configured
\* lifetime has passed since.
Expired(t) == sessions[t] # NoSession /\ sessions[t].age = ExpiredInSeconds

\* C15: after SignIn returns (user, token, nil) the cache maps token to the
\* user's id with a time to live equal to the configured expiry, and
\* VerifyToken on a token issued and neither expired nor revoked returns the
\* id of the user it was issued to.
C15_IssuedTokenVerifies ==
    /\ (resp.kind = "SignIn" /\ resp.err = Nil)
       => /\ resp.user # NoUser
          /\ resp.token \in Tokens
          /\ cache[resp.token] = resp.user
          /\ ttl[resp.token] = ExpiredInSeconds
          /\ VerifyToken(resp.token, "none") = [id |-> resp.user, err |-> Nil]
    /\ \A t \in Tokens :
          Live(t) => VerifyToken(t, "none") = [id |-> sessions[t].user, err |-> Nil]

C15_Witness ==
    /\ resp.kind = "SignIn"
    /\ resp.err = Nil
    /\ resp.token = "t0"
    /\ resp.user = 2
    /\ cache["t0"] = 2
    /\ ttl["t0"] = ExpiredInSeconds
    /\ Live("t1")
    /\ sessions["t1"].age = 1

\* C16: once the configured lifetime has passed since a token was issued,
\* VerifyToken on it returns an error and a protected route answers 401
\* without invoking the handler, no revoke having been called.
C16_ExpiredTokenIsRejected ==
    [][\A t \in Tokens :
          Expired(t)
          => /\ VerifyToken(t, "none").err # Nil
             /\ (/\ resp = Idle
                 /\ resp'.kind = "served"
                 /\ Presented(resp'.req, resp'.strategy) = t)
                => (resp'.status = StatusUnauthorized /\ ~resp'.invoked)]_vars

C16_Witness ==
    /\ resp.kind = "served"
    /\ resp.strategy = TokenBasedAuth
    /\ resp.req.header = <<"Bearer", "t0">>
    /\ Expired("t0")
    /\ resp.authErr = "ErrValidateCookie"
    /\ resp.status = StatusUnauthorized
    /\ ~resp.invoked

\* C17: after ClearSession returned nil for a request whose session cookie is
\* t, VerifyToken(t) fails until t is issued again; ClearSession for a cookie
\* that has no entry in the cache returns nil as well.
C17_ClearedCookieFailsVerify ==
    [][/\ \A t \in Tokens :
             sessions[t] = NoSession => VerifyToken(t, "none").err # Nil
       /\ (/\ resp = Idle
           /\ resp'.kind = "ClearSession"
           /\ resp'.fault = "none"
           /\ resp'.cookie # NoCookie
           /\ cache[resp'.cookie] = NoUser)
          => resp'.err = Nil]_vars

C17_Witness ==
    /\ resp.kind = "ClearSession"
    /\ resp.cookie = "t1"
    /\ resp.err = Nil
    /\ sessions["t1"] = NoSession
    /\ Live("t0")
    /\ VerifyToken("t1", "none").err # Nil

\* A later request with the header of request r, as the server delivers it.
SameHeader(r) ==
    [header |-> r.header, cookie |-> NoCookie, method |-> r.method,
     route |-> r.route, ctx |-> [present |-> FALSE, user |-> NoUser]]

\* C18: after Logout returned nil for a request with the header
\* Authorization: Bearer t, VerifyToken(t) fails and a later protected request
\* with the same header is answered 401.
C18_LoggedOutTokenFailsVerify ==
    \A t \in Tokens :
        (/\ resp.kind = "Logout"
         /\ ~resp.panic
         /\ resp.err = Nil
         /\ resp.req.header = <<"Bearer", t>>)
        => /\ VerifyToken(t, "none").err # Nil
           /\ authenticateRoute(SameHeader(resp.req), TokenBasedAuth, "none").status
                  = StatusUnauthorized

\* C19: when the write to the cache fails during SignIn, SignIn returns
\* ErrCreatingToken with a nil user and an empty token, and the cache holds no
\* entry for the token that was generated.
C19_FailedWriteIssuesNoToken ==
    (/\ resp.kind = "SignIn"
     /\ resp.fault = "cacheSet"
     /\ Authenticate(resp.params, resp.found, "none").err = Nil)
    => /\ resp.err = "ErrCreatingToken"
       /\ resp.user = NoUser
       /\ resp.token = ""
       /\ resp.generated \in Tokens
       /\ cache[resp.generated] = NoUser

C19_Witness ==
    /\ resp.kind = "SignIn"
    /\ resp.fault = "cacheSet"
    /\ resp.found = 1
    /\ resp.generated = "t0"
    /\ resp.err = "ErrCreatingToken"
    /\ resp.token = ""
    /\ cache["t0"] = NoUser

\* C20: when the write to the cache fails during SignInCookie, the call
\* fails and the response carries no session cookie holding the generated
\* token.
C20_FailedWriteSetsNoCookie ==
    (/\ resp.kind = "SignInCookie"
     /\ resp.fault = "cacheSet"
     /\ Authenticate(resp.params, resp.found, "none").err = Nil)
    => /\ resp.err # Nil
       /\ resp.cookie = NoCookie

\* C21: GetUserLogin on a request that did not pass through the
\* authentication middleware returns nil, without failing or panicking, so
\* Logout on such a request returns ErrInvalidUserLogin and deletes nothing
\* from the cache.
C21_LogoutWithoutPrincipal ==
    (resp.kind = "Logout" /\ ~resp.req.ctx.present)
    => /\ GetUserLogin(resp.req) = [panic |-> FALSE, user |-> NoUser]
       /\ ~resp.panic
       /\ resp.err = "ErrInvalidUserLogin"

\* C22: when the baseline schema script or the index-creation script fails,
\* Initialize invokes the tear-down script and returns a non-nil error;
\* Initialize returns nil only after the schema script succeeded and either
\* the index validation passed or the index-creation script succeeded.
C22_FailedInitializeTearsDown ==
    ini.op = "Initialize"
    => /\ (ini.upErr # Nil \/ (ini.indexRun /\ ini.indexErr # Nil))
          => /\ ini.err # Nil
             /\ ini.downCalled
             /\ ini.fault # "down" => (~tables /\ catalog = {})
       /\ ini.err = Nil
          => /\ ini.upErr = Nil
             /\ tables
             /\ ini.validated \/ (ini.indexRun /\ ini.indexErr = Nil)

C22_Witness ==
    /\ ini.op = "Initialize"
    /\ ini.fault = "validate"
    /\ ini.upErr = Nil
    /\ ini.indexRun
    /\ ini.indexErr # Nil
    /\ ini.read = RequiredNames
    /\ ini.err # Nil
    /\ ini.downCalled
    /\ ~tables
    /\ catalog = {}

\* C23: across any sequence of Initialize and Down calls in one process,
\* Initialize returns nil only if every index named in requiredIndexes is in
\* the store's index catalog when it returns: the validation depends on the
\* catalog read during that call only.
C23_NilMeansIndexesExist ==
    [][((\E fault \in InitFaults : Initialize(fault)) /\ ini'.err = Nil)
       => RequiredNames \subseteq catalog']_vars

\* Both callers have returned from Run, called with the same key and with
\* migration functions that return nil.
BothReturned ==
    /\ \A c \in Callers : txs[c].pc = "done" /\ txs[c].fnResult = "ok"
    /\ \A c, d \in Callers : txs[c].key = txs[d].key

\* C24: of two concurrent first-time calls of Run with the same key, each in
\* its own transaction, at most one creates a migration record, the writes of
\* at most one of the two migration functions are committed, and the losing
\* call returns an error.
C24_OneOfTwoRunsWins ==
    BothReturned
    => /\ \A key \in MigrationKeys : migrations[key] <= 1
       /\ \E c \in Callers : WritesOf(c) \cap rows = {}
       /\ \E c \in Callers : txs[c].result # Nil

\* The user a request's token maps to in the cache, NoUser when it presents
\* no token or one without an entry.
TokenUser(r, strategy) ==
    IF Presented(r, strategy) = "" THEN NoUser ELSE cache[Presented(r, strategy)]

\* C25: the authentication middleware never admits a request whose session
\* token belongs to a user with active = false at the time of the request: a
\* user deactivated after sign-in gets 401 on the next protected request.
C25_InactiveUserIsRejected ==
    [][(/\ resp = Idle
        /\ resp'.kind = "served"
        /\ TokenUser(resp'.req, resp'.strategy) # NoUser
        /\ ~accounts[TokenUser(resp'.req, resp'.strategy)].active)
       => (resp'.status = StatusUnauthorized /\ ~resp'.invoked)]_vars

\* C26: the authentication middleware invokes the wrapped handler only if the
\* session token maps to a user id that has a user record: a live token whose
\* user was deleted from the store gets 401 and the handler is not invoked.
C26_DeletedUserIsRejected ==
    [][(/\ resp = Idle
        /\ resp'.kind = "served"
        /\ TokenUser(resp'.req, resp'.strategy) # NoUser
        /\ TokenUser(resp'.req, resp'.strategy) \notin users)
       => (resp'.status = StatusUnauthorized /\ ~resp'.invoked)]_vars

\* The rules an RBAC check of the request gathers: the rules of the granting
\* roles, then the rules of the matching permission, each in the order the
\* store returns them.
GatheredRules ==
    LET OfRole(r) == r.ruleType = RoleRuleType /\ r.parentId \in GrantingRoles
        OfPermission(r) == r.ruleType = PermissionRuleType
                           /\ r.parentId \in MatchingPermissions
    IN  SelectSeq(rules, OfRole) \o SelectSeq(rules, OfPermission)

\* The names of the rules of rs that have an executor, in order, up to and
\* including the first whose executor answers false for the user.
RECURSIVE UpToFirstDenial(_, _)
UpToFirstDenial(user, rs) ==
    IF rs = <<>> THEN <<>>
    ELSE IF ~registry[Head(rs).name].registered THEN UpToFirstDenial(user, Tail(rs))
    ELSE IF user \notin registry[Head(rs).name].allowed THEN <<Head(rs).name>>
    ELSE <<Head(rs).name>> \o UpToFirstDenial(user, Tail(rs))

RoleLists == {<<>>} \cup {<<r>> : r \in RoleIds}
             \cup {l \in {<<r, s>> : r \in RoleIds, s \in RoleIds} : l[1] # l[2]}

\* C28: for a non-empty list of roles GetRolesRule binds the RoleRule type
\* followed by the ids of the roles, with as many markers as arguments, and
\* returns the rules with rule_type = RoleRule and parent_id among those ids;
\* for an empty list it returns an empty result without failing.
C28_GetRolesRuleBindsRoleIds ==
    \A roles \in RoleLists :
        LET g == GetRolesRule(roles, "none")
            Wanted(r) == /\ r.ruleType = RoleRuleType
                         /\ \E i \in 1..Len(roles) : r.parentId = roles[i]
        IN  /\ ~g.panic
            /\ g.err = Nil
            /\ g.rules = SelectSeq(rules, Wanted)
            /\ roles # <<>> => GetRolesRuleArgs(roles) = <<RoleRuleType>> \o roles

\* C29: a gathered rule whose name has no executor in the registry is skipped
\* and cannot deny: when every gathered rule is unregistered or has an
\* executor that answers true, the RBAC check allows. RegisterRule ignores a
\* nil executor, and the executor registered last under a name is the one
\* consulted.
C29_UnregisteredRuleIsSkipped ==
    [][/\ (/\ Authenticated
           /\ CarriesPrincipal
           /\ Granted
           /\ resp.rbacErr # "store"
           /\ \A i \in 1..Len(GatheredRules) :
                 \/ ~registry[GatheredRules[i].name].registered
                 \/ resp.principal \in registry[GatheredRules[i].name].allowed)
          => /\ resp.invoked
             /\ resp.status \notin {StatusUnauthorized, StatusForbidden}
       /\ RegisterRule(NilExecutor) => registry' = registry
       /\ \A executor \in Executors :
             RegisterRule(executor)
             => registry'[executor.name] =
                   [registered |-> TRUE, allowed |-> executor.allowed]]_vars

\* C30: in cookie mode, whenever authenticateRoute rejects a request that
\* carries the session cookie, also when the token is live and the lookup of
\* the user fails, the cache entry under the cookie's value is deleted, and
\* 401 is written; in token mode a rejected request leaves the cache as it
\* was.
C30_RejectionClearsCookieSession ==
    [][(/\ resp = Idle
        /\ resp'.kind = "served"
        /\ resp'.authErr # Nil)
       => /\ resp'.status = StatusUnauthorized
          /\ (resp'.strategy = CookieBasedAuth /\ resp'.req.cookie # NoCookie)
             => cache' = [cache EXCEPT ![resp'.req.cookie] = NoUser]
          /\ resp'.strategy = TokenBasedAuth => cache' = cache]_vars

C30_Witness ==
    /\ resp.kind = "served"
    /\ resp.strategy = CookieBasedAuth
    /\ resp.req.cookie = "t1"
    /\ resp.authErr = "ErrUserNotFound"
    /\ resp.status = StatusUnauthorized
    /\ cache["t1"] = NoUser
    /\ ttl["t1"] = 0
    /\ ~resp.invoked

====
